---- MODULE Spec2Model ----
(***************************************************************************)
(* Model of the RESP decoder/encoder of redis-clone (src/src/resp.rs,      *)
(* src/src/resp_result.rs).  A buffer is a sequence of bytes (0..255), the *)
(* cursor `index` is a 0-based offset into it, as in the Rust code; the    *)
(* byte the code writes buffer[i] is buf[i + 1] here.                      *)
(***************************************************************************)
EXTENDS Integers, Sequences, FiniteSets, TLC

\* ---------------------------------------------------------------- bounds
MaxLen == 4
MaxText == 2

\* ------------------------------------------------------- program constants
CR == 13
LF == 10
PLUS == 43
DOLLAR == 36
MINUS == 45
I32_MAX == 2147483647
I32_MIN == (0 - I32_MAX) - 1

\* The bytes drawn for the enumerated buffers: the terminator bytes, both
\* sigils, what a length line is made of, and one byte that is never valid
\* UTF-8.
Alphabet == {CR, LF, PLUS, DOLLAR, MINUS, 48, 49, 255}

\* The bytes drawn for the text of an encoded value (a Rust String: valid UTF-8).
TextAlphabet == {79, 75, CR, LF}

\* ------------------------------------------------------------ result values
\* RESPResult<T>: Ok(value) or Err(RESPError); a panic (index out of range on
\* buffer[*index]) unwinds the caller and is recorded as its own outcome.
R(tag, kind, data, num) == [tag |-> tag, kind |-> kind, data |-> data, num |-> num]
Ok(kind, data, num) == R("Ok", kind, data, num)
Err(kind, num) == R("Err", kind, <<>>, num)
Panicked == R("Panic", "IndexOutOfRange", <<>>, 0)
NoResult == R("None", "None", <<>>, 0)

\* What a call returns: its result and the cursor it leaves behind.
Ret(r, idx) == [r |-> r, index |-> idx]

\* enum RESP
RESP(kind, data) == [kind |-> kind, data |-> data]
NoValue == RESP("None", <<>>)
OkRESP(v) == Ok(v.kind, v.data, 0)

\* buffer[from..to) of the Rust slice syntax (0-based, end excluded).
Slice(buf, from, to) == SubSeq(buf, from + 1, to)

\* ----------------------------------------------------- String::from_utf8
RECURSIVE utf8_valid(_, _)
utf8_valid(b, i) ==
  IF i > Len(b) THEN TRUE
  ELSE LET x == b[i]
           rng(j, lo, hi) == j <= Len(b) /\ b[j] \in lo..hi
           cont(j) == rng(j, 128, 191)
       IN  IF x <= 127 THEN utf8_valid(b, i + 1)
           ELSE IF x \in 194..223 THEN cont(i + 1) /\ utf8_valid(b, i + 2)
           ELSE IF x = 224 THEN rng(i + 1, 160, 191) /\ cont(i + 2) /\ utf8_valid(b, i + 3)
           ELSE IF x \in 225..236 \/ x \in 238..239
                THEN cont(i + 1) /\ cont(i + 2) /\ utf8_valid(b, i + 3)
           ELSE IF x = 237 THEN rng(i + 1, 128, 159) /\ cont(i + 2) /\ utf8_valid(b, i + 3)
           ELSE IF x = 240
                THEN rng(i + 1, 144, 191) /\ cont(i + 2) /\ cont(i + 3) /\ utf8_valid(b, i + 4)
           ELSE IF x \in 241..243
                THEN cont(i + 1) /\ cont(i + 2) /\ cont(i + 3) /\ utf8_valid(b, i + 4)
           ELSE IF x = 244
                THEN rng(i + 1, 128, 143) /\ cont(i + 2) /\ cont(i + 3) /\ utf8_valid(b, i + 4)
           ELSE FALSE

from_utf8(bytes) ==
  IF utf8_valid(bytes, 1) THEN Ok("String", bytes, 0) ELSE Err("FromUtf8", 0)

\* ------------------------------------------------------ str::parse::<i32>
IsDigit(b) == b \in 48..57

\* Accumulates the digits from position i on, with the checked multiply and
\* checked add (subtract for a negative number) of the standard parser.
RECURSIVE parse_digits(_, _, _, _)
parse_digits(s, i, acc, positive) ==
  IF i > Len(s) THEN [ok |-> TRUE, val |-> acc]
  ELSE IF ~IsDigit(s[i]) THEN [ok |-> FALSE, val |-> 0]
  ELSE LET d == s[i] - 48
       IN  IF positive
           THEN IF acc > I32_MAX \div 10 \/ acc * 10 > I32_MAX - d
                THEN [ok |-> FALSE, val |-> 0]
                ELSE parse_digits(s, i + 1, acc * 10 + d, positive)
           ELSE IF acc < 0 - (I32_MAX \div 10) \/ acc * 10 < I32_MIN + d
                THEN [ok |-> FALSE, val |-> 0]
                ELSE parse_digits(s, i + 1, acc * 10 - d, positive)

\* Mutant of parse_i32: the sign is not recognised.
parse_i32_unsigned(s) ==
  IF Len(s) = 0 THEN [ok |-> FALSE, val |-> 0]
  ELSE parse_digits(s, 1, 0, TRUE)

parse_i32(s) ==
  IF Len(s) = 0 THEN [ok |-> FALSE, val |-> 0]
  ELSE IF Len(s) = 1 /\ s[1] \in {PLUS, MINUS} THEN [ok |-> FALSE, val |-> 0]
  ELSE IF s[1] = PLUS THEN parse_digits(s, 2, 0, TRUE)
  ELSE IF s[1] = MINUS THEN parse_digits(s, 2, 0, FALSE)
  ELSE parse_digits(s, 1, 0, TRUE)

\* ------------------------------------------------------------ resp.rs
\* The for loop of binary_extract_line: `pos` is the 0-based position of the
\* next element of buffer[*index..].
\* Mutant of scan_line: an LF closes the line whatever precedes it.
RECURSIVE scan_line_any_lf(_, _, _, _)
scan_line_any_lf(buf, pos, previous_elem, final_index) ==
  IF pos >= Len(buf)
  THEN [separator_found |-> FALSE, final_index |-> final_index]
  ELSE LET element == buf[pos + 1]
       IN  IF element = LF
           THEN [separator_found |-> TRUE, final_index |-> final_index + 1]
           ELSE scan_line_any_lf(buf, pos + 1, element, final_index + 1)

RECURSIVE scan_line(_, _, _, _)
scan_line(buf, pos, previous_elem, final_index) ==
  IF pos >= Len(buf)
  THEN [separator_found |-> FALSE, final_index |-> final_index]
  ELSE LET element == buf[pos + 1]
       IN  IF previous_elem = CR /\ element = LF
           THEN [separator_found |-> TRUE, final_index |-> final_index + 1]
           ELSE scan_line(buf, pos + 1, element, final_index + 1)

\* The guard of the early return "not enough space for 2 byte characters".
line_too_short(buf, idx) == Len(buf) - idx - 1 < 2

binary_extract_line(buf, idx) ==
  IF idx >= Len(buf) THEN Ret(Err("OutOfBounds", idx), idx)
  ELSE IF line_too_short(buf, idx) THEN Ret(Err("OutOfBounds", Len(buf)), Len(buf))
  ELSE LET s == scan_line(buf, idx, buf[idx + 1], idx)
       IN  IF ~s.separator_found
           THEN Ret(Err("OutOfBounds", s.final_index), s.final_index)
           ELSE Ret(Ok("Bytes", Slice(buf, idx, s.final_index - 2), 0), s.final_index)

binary_extract_line_as_string(buf, idx) ==
  LET line == binary_extract_line(buf, idx)
  IN  IF line.r.tag # "Ok" THEN line
      ELSE Ret(from_utf8(line.r.data), line.index)

\* Mutant of resp_remove_type: the byte is consumed before it is compared.
resp_remove_type_consuming(value, buf, idx) ==
  IF idx >= Len(buf) THEN Ret(Panicked, idx)
  ELSE IF buf[idx + 1] # value THEN Ret(Err("WrongType", 0), idx + 1)
  ELSE Ret(Ok("Unit", <<>>, 0), idx + 1)

resp_remove_type(value, buf, idx) ==
  IF idx >= Len(buf) THEN Ret(Panicked, idx)
  ELSE IF buf[idx + 1] # value THEN Ret(Err("WrongType", 0), idx)
  ELSE Ret(Ok("Unit", <<>>, 0), idx + 1)

resp_extract_length(buf, idx) ==
  LET line == binary_extract_line_as_string(buf, idx)
  IN  IF line.r.tag # "Ok" THEN line
      ELSE LET length == parse_i32(line.r.data)
           IN  IF length.ok THEN Ret(Ok("Length", <<>>, length.val), line.index)
               ELSE Ret(Err("ParseInt", 0), line.index)

\* Mutant of extract_bytes_error_offset: the buffer length alone, as
\* binary_extract_line reports it.
extract_bytes_error_offset_end(buf, idx, length) == Len(buf)

\* The offset binary_extract_bytes reports when the range does not fit.
extract_bytes_error_offset(buf, idx, length) == idx + Len(buf)

\* `*index + length > buffer.len()` is written with the length alone on the
\* left: usize is 64 bits wide and the sum cannot wrap, the model's integers
\* are narrower.
binary_extract_bytes(buf, idx, length) ==
  IF length > Len(buf) - idx
  THEN Ret(Err("OutOfBounds", extract_bytes_error_offset(buf, idx, length)), idx)
  ELSE Ret(Ok("Bytes", Slice(buf, idx, idx + length), 0), idx + length)

parse_simple_string(buf, idx) ==
  LET t == resp_remove_type(PLUS, buf, idx)
  IN  IF t.r.tag # "Ok" THEN t
      ELSE LET line == binary_extract_line_as_string(buf, t.index)
           IN  IF line.r.tag # "Ok" THEN line
               ELSE Ret(OkRESP(RESP("SimpleString", line.r.data)), line.index)

\* Mutant of skip_terminator: the terminator after the payload is not skipped.
skip_terminator_missing(idx) == idx

\* The cursor parse_bulk_string leaves after a decoded payload.
skip_terminator(idx) == idx + 2

parse_bulk_string(buf, idx) ==
  LET t == resp_remove_type(DOLLAR, buf, idx)
  IN  IF t.r.tag # "Ok" THEN t
      ELSE LET length == resp_extract_length(buf, t.index)
           IN  IF length.r.tag # "Ok" THEN length
               ELSE IF length.r.num = -1 THEN Ret(OkRESP(RESP("Null", <<>>)), length.index)
               ELSE IF length.r.num < -1
                    THEN Ret(Err("IncorrectLength", length.r.num), length.index)
               ELSE LET bytes == binary_extract_bytes(buf, length.index, length.r.num)
                    IN  IF bytes.r.tag # "Ok" THEN bytes
                        ELSE LET data == from_utf8(bytes.r.data)
                             IN  IF data.tag # "Ok" THEN Ret(data, bytes.index)
                                 ELSE Ret(OkRESP(RESP("BulkString", data.data)),
                                          skip_terminator(bytes.index))

\* "Some(+)", "Some($)" or "None"; the read of buffer[*index] panics when
\* the cursor is not inside the buffer.
parse_router(buf, idx) ==
  IF idx >= Len(buf) THEN "Panic"
  ELSE IF buf[idx + 1] = PLUS THEN "parse_simple_string"
  ELSE IF buf[idx + 1] = DOLLAR THEN "parse_bulk_string"
  ELSE "None"

bytes_to_resp(buf, idx) ==
  LET parse_function == parse_router(buf, idx)
  IN  IF parse_function = "Panic" THEN Ret(Panicked, idx)
      ELSE IF parse_function = "parse_simple_string" THEN parse_simple_string(buf, idx)
      ELSE IF parse_function = "parse_bulk_string" THEN parse_bulk_string(buf, idx)
      ELSE Ret(Err("Unknown", 0), idx)

\* usize formatted with {} : the decimal digits, most significant first.
RECURSIVE to_decimal(_)
to_decimal(n) == IF n < 10 THEN <<48 + n>> ELSE to_decimal(n \div 10) \o <<48 + (n % 10)>>

\* impl Display for RESP
fmt(v) ==
  IF v.kind = "Null" THEN <<DOLLAR, MINUS, 49, CR, LF>>
  ELSE IF v.kind = "SimpleString" THEN <<PLUS>> \o v.data \o <<CR, LF>>
  ELSE <<DOLLAR>> \o to_decimal(Len(v.data)) \o <<CR, LF>> \o v.data \o <<CR, LF>>

\* ------------------------------------------------------------- inputs
\* The buffers of the unit tests of resp.rs.
TestBuffers ==
  { <<>>,  \* empty
    <<79>>,  \* O
    <<79, 75>>,  \* OK
    <<79, 75, 13>>,  \* OK\r
    <<79, 75, 10>>,  \* OK\n
    <<79, 75, 13, 10>>,  \* OK\r\n
    <<43, 79, 75, 13, 10>>,  \* +OK\r\n
    <<42, 79, 75, 13, 10>>,  \* *OK\r\n
    <<63, 79, 75, 13, 10>>,  \* ?OK\r\n
    <<83, 79, 77, 69, 66, 89, 84, 69, 83>>,  \* SOMEBYTES
    <<36, 50, 13, 10, 79, 75, 13, 10>>,  \* $2\r\nOK\r\n
    <<36, 45, 49, 13, 10>>,  \* $-1\r\n
    <<63, 50, 13, 10, 79, 75, 13, 10>>,  \* ?2\r\nOK\r\n
    <<36, 119, 114, 111, 110, 103, 13, 10, 79, 75, 13, 10>>,  \* $wrong\r\nOK\r\n
    <<36, 45, 55, 13, 10, 79, 75, 13, 10>>,  \* $-7\r\nOK\r\n
    <<36, 55, 13, 10, 79, 75, 13, 10>>  \* $7\r\nOK\r\n
  }

\* Frames longer than MaxLen: a payload followed by bytes that are not the
\* terminator, a payload at the very end of the buffer, multi-byte and invalid
\* UTF-8, lengths at and beyond the limits of i32, and the reply of main.rs.
EdgeBuffers ==
  { <<36, 50, 13, 10, 79, 75, 79, 75>>,  \* $2\r\nOKOK
    <<36, 50, 13, 10, 79, 75>>,  \* $2\r\nOK
    <<36, 45, 49, 13, 10, 79, 75>>,  \* $-1\r\nOK
    <<36, 49, 13, 10, 255, 13, 10>>,  \* $1\r\n<FF>\r\n
    <<36, 50, 13, 10, 195, 169, 13, 10>>,  \* $2\r\n<C3 A9>\r\n
    <<43, 195, 169, 13, 10>>,  \* +<C3 A9>\r\n
    <<36, 50, 49, 52, 55, 52, 56, 51, 54, 52, 55, 13, 10>>,  \* $2147483647\r\n
    <<36, 50, 49, 52, 55, 52, 56, 51, 54, 52, 56, 13, 10>>,  \* $2147483648\r\n
    <<36, 45, 50, 49, 52, 55, 52, 56, 51, 54, 52, 56, 13, 10>>,  \* $-2147483648\r\n
    <<36, 45, 50, 49, 52, 55, 52, 56, 51, 54, 52, 57, 13, 10>>,  \* $-2147483649\r\n
    <<43, 80, 79, 78, 71, 13, 10>>  \* +PONG\r\n
  }

SeqsUpTo(S, n) == UNION {[1..k -> S] : k \in 0..n}

Buffers == SeqsUpTo(Alphabet, MaxLen) \cup TestBuffers \cup EdgeBuffers

\* The values the encoder is given.
Values ==
  {RESP("Null", <<>>)} \cup
  {RESP(k, t) : k \in {"SimpleString", "BulkString"}, t \in SeqsUpTo(TextAlphabet, MaxText)}

\* --------------------------------------------------------------- state
VARIABLES
  buffer,   \* the bytes being decoded (never written by the decoder)
  index,    \* the cursor
  index0,   \* the cursor the last call was entered with
  op,       \* the last call
  arg,      \* its scalar argument (length or expected type byte), else 0
  result,   \* what it returned
  encoded   \* the value the buffer was produced from by the encoder, if any

vars == <<buffer, index, index0, op, arg, result, encoded>>

Init ==
  /\ buffer \in Buffers
  /\ index \in 0..Len(buffer)
  /\ index0 = index
  /\ op = "start"
  /\ arg = 0
  /\ result = NoResult
  /\ encoded = NoValue

\* A panicked thread has unwound and makes no more calls.
Running == result.tag # "Panic"

\* A call returns: the cursor and the result are the callee's, the buffer is
\* only read.
Returned(name, a, ret) ==
  /\ op' = name
  /\ arg' = a
  /\ index0' = index
  /\ index' = ret.index
  /\ result' = ret.r
  /\ UNCHANGED <<buffer, encoded>>

BinaryExtractLine ==
  /\ Running
  /\ Returned("binary_extract_line", 0, binary_extract_line(buffer, index))

BinaryExtractLineAsString ==
  /\ Running
  /\ Returned("binary_extract_line_as_string", 0, binary_extract_line_as_string(buffer, index))

RespRemoveType ==
  /\ Running
  /\ \E value \in {PLUS, DOLLAR} :
       Returned("resp_remove_type", value, resp_remove_type(value, buffer, index))

RespExtractLength ==
  /\ Running
  /\ Returned("resp_extract_length", 0, resp_extract_length(buffer, index))

BinaryExtractBytes ==
  /\ Running
  /\ \E length \in 0..(Len(buffer) + 1) :
       Returned("binary_extract_bytes", length, binary_extract_bytes(buffer, index, length))

ParseSimpleString ==
  /\ Running
  /\ Returned("parse_simple_string", 0, parse_simple_string(buffer, index))

ParseBulkString ==
  /\ Running
  /\ Returned("parse_bulk_string", 0, parse_bulk_string(buffer, index))

BytesToResp ==
  /\ Running
  /\ Returned("bytes_to_resp", 0, bytes_to_resp(buffer, index))

\* response.to_string(): the encoder writes a fresh buffer, read from offset 0.
Encode ==
  /\ op = "start"
  /\ buffer = <<>>
  /\ \E v \in Values :
       /\ buffer' = fmt(v)
       /\ encoded' = v
  /\ index' = 0
  /\ index0' = 0
  /\ op' = "fmt"
  /\ arg' = 0
  /\ result' = NoResult

Next ==
  \/ BinaryExtractLine
  \/ BinaryExtractLineAsString
  \/ RespRemoveType
  \/ RespExtractLength
  \/ BinaryExtractBytes
  \/ ParseSimpleString
  \/ ParseBulkString
  \/ BytesToResp
  \/ Encode

Spec == Init /\ [][Next]_vars

\* =============================================================== claims
\* Vocabulary of the statements, defined on the bytes alone.
N == Len(buffer)

\* A CR immediately followed by LF starts at 0-based offset p.
TerminatorAt(p) == p + 2 <= N /\ buffer[p + 1] = CR /\ buffer[p + 2] = LF

TerminatorsFrom(c) == {p \in c..(N - 2) : TerminatorAt(p)}

FirstTerminator(c) == CHOOSE p \in TerminatorsFrom(c) : \A q \in TerminatorsFrom(c) : p <= q

IsDecode == op \in {"bytes_to_resp", "parse_bulk_string"}

\* At the entry cursor: '$', then a line closed by a terminator.
BulkHeader == index0 < N /\ buffer[index0 + 1] = DOLLAR /\ TerminatorsFrom(index0 + 1) # {}

LengthLine == Slice(buffer, index0 + 1, FirstTerminator(index0 + 1))

AfterLengthLine == FirstTerminator(index0 + 1) + 2

AllDigits(s) == Len(s) >= 1 /\ \A i \in 1..Len(s) : s[i] \in 48..57

RECURSIVE DecimalValue(_)
DecimalValue(s) == IF Len(s) = 0 THEN 0 ELSE 10 * DecimalValue(SubSeq(s, 1, Len(s) - 1)) + (s[Len(s)] - 48)

\* C1: whenever a terminator lies at or after a cursor inside the buffer, line
\* extraction returns the bytes up to the first one and leaves the cursor just
\* past it.
C1_LineExtraction ==
  (op = "binary_extract_line" /\ index0 < N /\ TerminatorsFrom(index0) # {}) =>
    /\ result = Ok("Bytes", Slice(buffer, index0, FirstTerminator(index0)), 0)
    /\ index = FirstTerminator(index0) + 2

\* C2: decoding at cursor 0 the bytes the encoder produced for a value gives
\* the value back (stated for the texts that hold no CR and no LF).
C2_RoundTrip ==
  (op = "bytes_to_resp" /\ index0 = 0 /\ encoded # NoValue
     /\ \A i \in 1..Len(encoded.data) : encoded.data[i] \notin {CR, LF}) =>
    result = OkRESP(encoded)

\* C3: a successful line extraction, byte-range extraction of length >= 1 or
\* decode entered with the cursor inside the buffer leaves the cursor strictly
\* greater and at most the buffer length.
C3_CursorOnSuccess ==
  (/\ \/ op \in {"binary_extract_line", "bytes_to_resp"}
      \/ op = "binary_extract_bytes" /\ arg >= 1
   /\ index0 <= N
   /\ result.tag = "Ok") =>
    index > index0 /\ index <= N

\* C4: with no terminator at or after the cursor, line extraction fails with
\* OutOfBounds(buffer length) and leaves the cursor at the buffer length; the
\* offset of an OutOfBounds it returns is always the cursor it leaves.
C4_LineFailure ==
  op = "binary_extract_line" =>
    /\ (index0 <= N /\ TerminatorsFrom(index0) = {}) =>
          result = Err("OutOfBounds", N) /\ index = N
    /\ result.kind = "OutOfBounds" => result.num = index

\* C4 witness: a lone CR is the last byte and an LF without CR precedes it.
C4_Witness ==
  /\ op = "binary_extract_line"
  /\ N >= 3 /\ index0 = 0
  /\ buffer[N] = CR
  /\ \E i \in 2..N : buffer[i] = LF
  /\ TerminatorsFrom(0) = {}
  /\ result = Err("OutOfBounds", N)

\* C5: a sigil that is rejected leaves the cursor where it was: Unknown from
\* the dispatcher, WrongType from resp_remove_type; a matching sigil advances
\* the cursor by exactly one.
C5_SigilRejection ==
  /\ (op = "bytes_to_resp" /\ index0 < N /\ buffer[index0 + 1] \notin {PLUS, DOLLAR}) =>
        result = Err("Unknown", 0) /\ index = index0
  /\ (op = "resp_remove_type" /\ index0 < N) =>
        IF buffer[index0 + 1] # arg
        THEN result = Err("WrongType", 0) /\ index = index0
        ELSE result = Ok("Unit", <<>>, 0) /\ index = index0 + 1

\* C5 witness: the other sigil is expected at a cursor past the start.
C5_Witness ==
  /\ op = "resp_remove_type" /\ arg = PLUS
  /\ index0 > 0 /\ index0 < N /\ buffer[index0 + 1] = DOLLAR
  /\ result.kind = "WrongType" /\ index = index0

\* C6: after '$' and a terminated length line, a line of text that is no
\* number fails with ParseInt, a length below -1 with IncorrectLength(length),
\* a length >= 0 beyond the remaining bytes with OutOfBounds; each time the
\* cursor is left just past the terminator of the length line.
C6_BulkLengthFailures ==
  (IsDecode /\ BulkHeader /\ utf8_valid(LengthLine, 1)) =>
    LET length == parse_i32(LengthLine)
    IN  /\ ~length.ok => result = Err("ParseInt", 0) /\ index = AfterLengthLine
        /\ (length.ok /\ length.val < -1) =>
              result = Err("IncorrectLength", length.val) /\ index = AfterLengthLine
        /\ (length.ok /\ length.val >= 0 /\ length.val > N - AfterLengthLine) =>
              result.kind = "OutOfBounds" /\ index = AfterLengthLine

\* C7: after '$', the digits of n and a terminator, with n bytes of valid text
\* present, the decode returns those n bytes as a BulkString and leaves the
\* cursor n + 2 past the length line, whatever the two bytes after the payload
\* are and whether they are there at all.
C7_BulkString ==
  (/\ IsDecode /\ BulkHeader
   /\ AllDigits(LengthLine) /\ Len(LengthLine) <= 9
   /\ DecimalValue(LengthLine) <= N - AfterLengthLine
   /\ utf8_valid(Slice(buffer, AfterLengthLine, AfterLengthLine + DecimalValue(LengthLine)), 1)) =>
    LET n == DecimalValue(LengthLine)
    IN  /\ result = Ok("BulkString", Slice(buffer, AfterLengthLine, AfterLengthLine + n), 0)
        /\ index = AfterLengthLine + n + 2

\* C7 witness: a payload of one byte or more was decoded and the two bytes
\* skipped after it are in the buffer and are not CR LF.
C7_Witness ==
  /\ op = "bytes_to_resp" /\ BulkHeader
  /\ result.tag = "Ok" /\ result.kind = "BulkString" /\ Len(result.data) >= 1
  /\ index <= N
  /\ Slice(buffer, index - 2, index) # <<CR, LF>>

\* C8: '$-1' and a terminator at the cursor decode to Null and leave the
\* cursor 5 further, whatever follows.
C8_Null ==
  (IsDecode /\ index0 + 5 <= N
     /\ Slice(buffer, index0, index0 + 5) = <<DOLLAR, MINUS, 49, CR, LF>>) =>
    result = Ok("Null", <<>>, 0) /\ index = index0 + 5

\* C8 witness: Null was decoded and bytes follow the frame.
C8_Witness ==
  /\ op = "bytes_to_resp"
  /\ result = Ok("Null", <<>>, 0)
  /\ index = index0 + 5 /\ index < N

\* C9 as stated: a byte-range extraction that does not fit reports the offset
\* cursor + length.
C9_OffsetIsCursorPlusLength ==
  (op = "binary_extract_bytes" /\ arg > N - index0) =>
    result = Err("OutOfBounds", index0 + arg)

\* C9 as amended: a byte-range extraction that does not fit, called directly
\* or for the payload of a bulk frame, reports the offset cursor + buffer
\* length, with the cursor left where the extraction was entered.
C9_OffsetIsCursorPlusBufferLength ==
  /\ (op = "binary_extract_bytes" /\ arg > N - index0) =>
        result = Err("OutOfBounds", index0 + N) /\ index = index0
  /\ (IsDecode /\ BulkHeader /\ AllDigits(LengthLine) /\ Len(LengthLine) <= 9
        /\ DecimalValue(LengthLine) > N - AfterLengthLine) =>
        result = Err("OutOfBounds", AfterLengthLine + N) /\ index = AfterLengthLine

\* C9 witness: a bulk frame declares more bytes than remain.
C9_Witness ==
  /\ op = "parse_bulk_string" /\ BulkHeader
  /\ AllDigits(LengthLine) /\ Len(LengthLine) <= 9
  /\ DecimalValue(LengthLine) > N - AfterLengthLine
  /\ result.kind = "OutOfBounds"
  /\ result.num # AfterLengthLine + DecimalValue(LengthLine)

\* C10: a decode entered with the cursor anywhere from 0 to the buffer length
\* returns a value or an error; it never aborts on a read outside the buffer.
C10_DecodeTotal ==
  (op = "bytes_to_resp" /\ index0 <= N) => result.tag \in {"Ok", "Err"}

====
